---- MODULE Spec2Model ----
(***************************************************************************)
(* Model of pkg/server/k8s/client.go: the PodRun session (transient pod,   *)
(* start-wait, log copy, end-wait, exit code, deferred close of the two    *)
(* handles), the create-or-update operations against the resource store    *)
(* and the patch operations on deployments and services.                   *)
(***************************************************************************)
EXTENDS Integers, Sequences, FiniteSets, TLC

\* ------------------------------------------------------------------ bounds
\* waitPodStart budget in ticks (5*time.Minute / 1*time.Second, scaled down)
StartTimeoutTicks == 2
\* largest conf.PodRunTimeout in ticks of the 3*time.Second end-wait interval
MaxRunTimeoutTicks == 2
\* number of log chunks the pod's container writes at most
MaxOut == 2
\* largest replica count of the deployment
MaxReplicas == 2
\* largest number of variables in one environment patch
MaxEnvVars == 2
\* number of environment patches the clock of time.Now() lasts for
MaxTime == 2

\* ------------------------------------------------------------ value sets
ExitCodes == {0, 1, 137}
Constructors == {"inCluster", "outOfCluster"}
CallerModes == {"eofFirst", "drain", "recvOnly", "closer"}
Kinds == {"secret", "autoscale", "configmap", "deploy", "cronjob"}
Manifests == {"m1", "m2", "bad"}
Callers == {1, 2}
\* names and values of container environment variables
EnvNames == {"K1", "K2", "K3"}
Values == {"a", "b"}
\* names of secrets
SecretNames == {"s1"}
\* keys of service annotations
AnnKeys == {"x", "y"}
\* a name that is not in an environment or an annotation map
NoVar == "<unset>"
\* revision strings given to DeployRollbackToRevision
Revisions == {"1", "3", "x"}
\* name of the application: of its deployment and of the container in it
AppName == "app"

VARIABLES
    \* --- Client (struct Client)
    constructor,      \* which constructor built the Client
    podRunTimeout,    \* Client.podRunTimeout, in end-wait ticks; 0 = unset
    confOK,           \* whether kubernetes.NewForConfig(k.conf) succeeds
    \* --- the pod in the resource store and its log stream
    podPhase,         \* "Absent" or p.Status.Phase
    containerStatuses,\* p.Status.ContainerStatuses
    logState,         \* "unopened", "open", "ended" (EOF or read error)
    logPending,       \* chunks written by the container, not yet read
    produced,         \* chunks the container has written so far
    exited,           \* exit code the container terminated with, -1 if none
    \* --- PodRun call and its goroutine
    ret,              \* what PodRun returned: "none", "handles", "err"
    pc,               \* position of the goroutine
    ticks,            \* ticks elapsed in the current wait
    lastCheck,        \* the wait's timer fired; one final condition check
    failure,          \* error that made the goroutine return, or "nil"
    failedAt,         \* the call whose error it was, or "none"
    exitCode,         \* local exitCode of the goroutine
    startPolls,       \* reads made by waitPodStart
    endPolls,         \* reads made by waitPodEnd
    lastRead,         \* outcome of the last read of the pod made by a wait
    \* --- io.Pipe and exitCodeChan
    pipeBuf,          \* 1 while io.Copy is blocked in w.Write
    wClosed,          \* w.Close() was called
    rClosed,          \* the caller closed the read end r
    chanCloses,       \* number of close(exitCodeChan) calls
    sendAfterClose,   \* a send was made on the closed channel
    copied,           \* history: chunks io.Copy has read from the log stream
    \* --- the caller of PodRun
    callerMode,
    readerBytes,      \* chunks the caller read from r
    readerEOF,        \* caller saw io.EOF on r
    chanValues,       \* values the caller received from exitCodeChan
    callerSawClose,   \* caller received the closed-channel signal
    \* --- DeletePod goroutine
    deleteState,      \* "none", "pending", "ok", "failed"
    \* --- resource store and create-or-update calls
    store,            \* kind -> "absent" or the manifest stored
    deployReplicas,   \* Spec.Replicas and Status.Replicas of the deployment
    cu,               \* caller -> record of one create-or-update call
    \* --- history of the calls made against the store
    lastScale,        \* replica count of the last DeploySetReplicas made while
                      \* no CreateOrUpdateDeploy was running, -1 if none
    lastApply,        \* the last successful create-or-update call and the
                      \* store it left; not valid once anything else acted
    \* --- the documents that the patch operations address
    deployDoc,        \* fields of the deployment other than the replicas
    cronJob,          \* fields of the cron job: change cause, environment
    svc,              \* the service: whether it exists, its annotations
    lastPatch         \* history: the last patch operation, its error and
                      \* the number of Patch requests it issued

podVars == <<podPhase, containerStatuses, logState, logPending, produced, exited>>
clientVars == <<constructor, podRunTimeout, confOK>>
goVars == <<ret, pc, ticks, lastCheck, failure, failedAt, exitCode, startPolls, endPolls,
           lastRead>>
handleVars == <<pipeBuf, wClosed, rClosed, chanCloses, sendAfterClose, copied>>
callerVars == <<callerMode, readerBytes, readerEOF, chanValues, callerSawClose>>
cuVars == <<store, deployReplicas, cu, lastScale, lastApply>>
runVars == <<podVars, goVars, handleVars, callerVars, deleteState>>
patchVars == <<deployDoc, cronJob, svc, lastPatch>>
vars == <<clientVars, runVars, cuVars, patchVars>>

chanClosed == chanCloses > 0
PodTerminal == podPhase \in {"Succeeded", "Failed"}

\* ------------------------------------------------------------ constructors
\* newInClusterK8sClient leaves podRunTimeout at its zero value
newInClusterK8sClient == [podRunTimeout |-> 0]

\* newOutOfClusterK8sClient copies conf.PodRunTimeout
newOutOfClusterK8sClient(confTimeout) == [podRunTimeout |-> confTimeout]

\* the container environment, the annotation map, with nothing in them
NoEnv == [k \in EnvNames |-> NoVar]
NoAnnotations == [k \in AnnKeys |-> NoVar]

\* the fields of a deployment that was never patched
NoDoc == [changeCause |-> "", date |-> 0, container |-> AppName,
          env |-> NoEnv, rollbackTo |-> 0]

\* the fields of a cron job that was never patched
NoCronJob == [changeCause |-> "", container |-> AppName, env |-> NoEnv]

\* no service
NoService == [exists |-> FALSE, annotations |-> NoAnnotations]

\* annotations map[string]string given to SetServiceAnnotations: nil, or
\* the keys that are not NoVar
NilMap == [nil |-> TRUE, m |-> NoAnnotations]

\* no patch operation was made
NoPatch == [op |-> "none", err |-> "none", requests |-> 0]

\* a create-or-update call that has not started: no request made, no result
IdleCU == [pc |-> "idle", kind |-> "secret", manifest |-> "m1", replicas |-> 0,
           updErr |-> "none", crtErr |-> "none", result |-> "none",
           wasAbsent |-> FALSE, readOK |-> TRUE, disturbed |-> FALSE]

\* no successful create-or-update call is remembered
NoApply == [valid |-> FALSE, caller |-> 0, kind |-> "secret", manifest |-> "m1",
            readOK |-> TRUE, count |-> 0, store |-> [k \in Kinds |-> "absent"],
            repl |-> [spec |-> 0, status |-> 0]]

InitRun ==
    /\ constructor \in Constructors
    /\ confOK \in BOOLEAN
    /\ \E t \in {0, MaxRunTimeoutTicks} :
          podRunTimeout = IF constructor = "inCluster"
                          THEN newInClusterK8sClient.podRunTimeout
                          ELSE newOutOfClusterK8sClient(t).podRunTimeout
    /\ containerStatuses = <<>>
    /\ logState = "unopened"
    /\ logPending = 0
    /\ produced = 0
    /\ exited = -1
    /\ ret = "none"
    /\ pc = "none"
    /\ ticks = 0
    /\ lastCheck = FALSE
    /\ failure = "nil"
    /\ failedAt = "none"
    /\ exitCode = -1
    /\ startPolls = 0
    /\ endPolls = 0
    /\ lastRead = "none"
    /\ pipeBuf = 0
    /\ wClosed = FALSE
    /\ rClosed = FALSE
    /\ chanCloses = 0
    /\ sendAfterClose = FALSE
    /\ copied = 0
    /\ callerMode \in CallerModes
    /\ readerBytes = 0
    /\ readerEOF = FALSE
    /\ chanValues = <<>>
    /\ callerSawClose = FALSE
    /\ deleteState = "none"
    /\ cu = [c \in Callers |-> IdleCU]
    /\ lastScale = -1
    /\ lastApply = NoApply
    /\ lastPatch = NoPatch

\* the resource store holds nothing, but for a pod of the name PodRun will
\* use, which may be there already
Init ==
    /\ InitRun
    /\ podPhase \in {"Absent", "Pending"}
    /\ store = [k \in Kinds |-> "absent"]
    /\ deployReplicas = [spec |-> 0, status |-> 0]
    /\ deployDoc = NoDoc
    /\ cronJob = NoCronJob
    /\ svc = NoService

\* ----------------------------------------------- the external system (pod)
\* the scheduler/kubelet starts the container
PodSchedule ==
    /\ podPhase = "Pending"
    /\ podPhase' = "Running"
    /\ containerStatuses' = <<[terminated |-> FALSE, exitCode |-> 0]>>
    /\ UNCHANGED <<logState, logPending, produced, exited>>
    /\ UNCHANGED <<clientVars, goVars, handleVars, callerVars, deleteState, cuVars, patchVars>>

\* the running container writes one chunk of output
PodWrite ==
    /\ podPhase = "Running"
    /\ produced < MaxOut
    /\ produced' = produced + 1
    /\ logPending' = IF logState = "ended" THEN logPending ELSE logPending + 1
    /\ UNCHANGED <<podPhase, containerStatuses, logState, exited>>
    /\ UNCHANGED <<clientVars, goVars, handleVars, callerVars, deleteState, cuVars, patchVars>>

\* the container terminates with exit code c
PodExit(c) ==
    /\ podPhase = "Running"
    /\ podPhase' = IF c = 0 THEN "Succeeded" ELSE "Failed"
    /\ containerStatuses' = <<[terminated |-> TRUE, exitCode |-> c]>>
    /\ exited' = c
    /\ UNCHANGED <<logState, logPending, produced>>
    /\ UNCHANGED <<clientVars, goVars, handleVars, callerVars, deleteState, cuVars, patchVars>>

\* the pod is failed by the node (eviction, rejected): phase Failed although
\* no container status is in the terminated state
PodEvict ==
    /\ podPhase \in {"Pending", "Running"}
    /\ podPhase' = "Failed"
    /\ UNCHANGED <<containerStatuses, logState, logPending, produced, exited>>
    /\ UNCHANGED <<clientVars, goVars, handleVars, callerVars, deleteState, cuVars, patchVars>>

\* the followed log stream ends (EOF after termination, or a broken read)
LogStreamEnd ==
    /\ logState = "open"
    /\ logState' = "ended"
    /\ UNCHANGED <<podPhase, containerStatuses, logPending, produced, exited>>
    /\ UNCHANGED <<clientVars, goVars, handleVars, callerVars, deleteState, cuVars, patchVars>>

\* ------------------------------------------------------ wait.PollImmediate
\* waitPodStart's condition without the PodFailed branch: a failed pod counts
\* as started, as in waitPodEnd
waitPodStartCondNoFail(readOK, phase) ==
    IF ~readOK THEN [done |-> FALSE, err |-> "ReadErr"]
    ELSE [done |-> phase \in {"Running", "Succeeded", "Failed"}, err |-> "nil"]

\* condition function of waitPodStart
waitPodStartCond(readOK, phase) ==
    IF ~readOK THEN [done |-> FALSE, err |-> "ReadErr"]
    ELSE IF phase = "Failed" THEN [done |-> TRUE, err |-> "ErrPodRunFailed"]
    ELSE [done |-> phase = "Running" \/ phase = "Succeeded", err |-> "nil"]

\* an end-wait that is satisfied by any phase of a pod that was read
waitPodEndCondAnyPhase(readOK, phase) ==
    IF ~readOK THEN [done |-> FALSE, err |-> "ReadErr"]
    ELSE [done |-> TRUE, err |-> "nil"]

\* condition function of waitPodEnd
waitPodEndCond(readOK, phase) ==
    IF ~readOK THEN [done |-> FALSE, err |-> "ReadErr"]
    ELSE [done |-> phase = "Succeeded" \/ phase = "Failed", err |-> "nil"]

\* a poll that takes a failed read for "not yet" and keeps waiting
PollResultRetriesErr(cond, last) ==
    IF cond.done THEN "nil"
    ELSE IF last THEN "ErrWaitTimeout"
    ELSE "continue"

\* one evaluation of the condition inside wait.PollImmediate: an error stops
\* the wait with that error, done stops it with nil, and once the timer has
\* fired the wait stops with ErrWaitTimeout; otherwise it sleeps
PollResult(cond, last) ==
    IF cond.err # "nil" THEN cond.err
    ELSE IF cond.done THEN "nil"
    ELSE IF last THEN "ErrWaitTimeout"
    ELSE "continue"

\* the goroutine returns because a call failed; the deferred function runs
Abort(err, at) ==
    /\ failure' = err
    /\ failedAt' = at
    /\ pc' = "deferW"

\* ----------------------------------------------------------------- PodRun
\* PodRun starting its goroutine whether or not the pod was created
PodRunStartsAnyway ==
    /\ pc = "none"
    /\ ret = "none"
    /\ \E specOK \in BOOLEAN, createOK \in BOOLEAN :
          IF confOK /\ specOK /\ createOK /\ podPhase = "Absent"
          THEN /\ podPhase' = "Pending"
               /\ ret' = "handles"
          ELSE /\ ret' = "err"
               /\ UNCHANGED podPhase
    /\ pc' = "startPoll"
    /\ UNCHANGED <<containerStatuses, logState, logPending, produced, exited>>
    /\ UNCHANGED <<ticks, lastCheck, failure, failedAt, exitCode, startPolls, endPolls, lastRead>>
    /\ UNCHANGED <<clientVars, handleVars, callerVars, deleteState, cuVars, patchVars>>

\* PodRun up to its return: buildClient, podSpecToK8sPod, Pods.Create, the
\* two handles and the start of the goroutine
PodRun ==
    /\ pc = "none"
    /\ ret = "none"
    /\ \E specOK \in BOOLEAN, createOK \in BOOLEAN :
          IF confOK /\ specOK /\ createOK /\ podPhase = "Absent"
          THEN /\ podPhase' = "Pending"
               /\ ret' = "handles"
               /\ pc' = "startPoll"
          ELSE /\ ret' = "err"
               /\ pc' = "notStarted"
               /\ UNCHANGED podPhase
    /\ UNCHANGED <<containerStatuses, logState, logPending, produced, exited>>
    /\ UNCHANGED <<ticks, lastCheck, failure, failedAt, exitCode, startPolls, endPolls, lastRead>>
    /\ UNCHANGED <<clientVars, handleVars, callerVars, deleteState, cuVars, patchVars>>

\* waitPodStart: one read of the pod and one evaluation of the condition
WaitPodStartPoll ==
    /\ pc = "startPoll"
    /\ startPolls' = startPolls + 1
    /\ \E readOK \in BOOLEAN :
          LET r == PollResult(waitPodStartCond(readOK, podPhase), lastCheck) IN
          /\ lastRead' = IF readOK THEN "ok" ELSE "failed"
          /\ IF r = "continue"
             THEN /\ pc' = "startSleep"
                  /\ UNCHANGED <<ticks, lastCheck, failure, failedAt>>
             ELSE IF r = "nil"
             THEN /\ pc' = "openLogs"
                  /\ ticks' = 0
                  /\ lastCheck' = FALSE
                  /\ UNCHANGED <<failure, failedAt>>
             ELSE /\ Abort(r, "waitPodStart")
                  /\ UNCHANGED <<ticks, lastCheck>>
    /\ UNCHANGED <<ret, exitCode, endPolls>>
    /\ UNCHANGED <<clientVars, podVars, handleVars, callerVars, deleteState, cuVars, patchVars>>

\* the 1s ticker of waitPodStart fires before the 5min timer
StartTick ==
    /\ pc = "startSleep"
    /\ ticks < StartTimeoutTicks
    /\ ticks' = ticks + 1
    /\ pc' = "startPoll"
    /\ UNCHANGED <<ret, lastCheck, failure, failedAt, exitCode, startPolls, endPolls, lastRead>>
    /\ UNCHANGED <<clientVars, podVars, handleVars, callerVars, deleteState, cuVars, patchVars>>

\* the 5min timer of waitPodStart fires: a last check follows
StartTimeout ==
    /\ pc = "startSleep"
    /\ ticks >= StartTimeoutTicks
    /\ lastCheck' = TRUE
    /\ pc' = "startPoll"
    /\ UNCHANGED <<ret, ticks, failure, failedAt, exitCode, startPolls, endPolls, lastRead>>
    /\ UNCHANGED <<clientVars, podVars, handleVars, callerVars, deleteState, cuVars, patchVars>>

\* k.PodLogs(..., Follow: true)
OpenLogs ==
    /\ pc = "openLogs"
    /\ \E ok \in BOOLEAN :
          IF ok
          THEN /\ logState' = "open"
               /\ pc' = "copy"
               /\ UNCHANGED <<failure, failedAt>>
          ELSE /\ Abort("LogOpenErr", "PodLogs")
               /\ UNCHANGED logState
    /\ UNCHANGED <<podPhase, containerStatuses, logPending, produced, exited>>
    /\ UNCHANGED <<ret, ticks, lastCheck, exitCode, startPolls, endPolls, lastRead>>
    /\ UNCHANGED <<clientVars, handleVars, callerVars, deleteState, cuVars, patchVars>>

\* io.Copy(w, stream): stream.Read returns a chunk, w.Write then blocks
CopyRead ==
    /\ pc = "copy"
    /\ logPending > 0
    /\ logPending' = logPending - 1
    /\ pipeBuf' = 1
    /\ pc' = "copyWrite"
    /\ UNCHANGED <<podPhase, containerStatuses, logState, produced, exited>>
    /\ UNCHANGED <<ret, ticks, lastCheck, failure, failedAt, exitCode, startPolls, endPolls, lastRead>>
    /\ copied' = copied + 1
    /\ UNCHANGED <<wClosed, rClosed, chanCloses, sendAfterClose>>
    /\ UNCHANGED <<clientVars, callerVars, deleteState, cuVars, patchVars>>

\* w.Write fails with io.ErrClosedPipe because the caller closed r: io.Copy
\* returns; its error is dropped and waitPodEnd is called
CopyWriteFails ==
    /\ pc = "copyWrite"
    /\ rClosed
    /\ pipeBuf' = 0
    /\ pc' = "endPoll"
    /\ UNCHANGED <<ret, ticks, lastCheck, failure, failedAt, exitCode, startPolls, endPolls, lastRead>>
    /\ UNCHANGED <<wClosed, rClosed, chanCloses, sendAfterClose, copied>>
    /\ UNCHANGED <<clientVars, podVars, callerVars, deleteState, cuVars, patchVars>>

\* a copy that returns although the log stream is still open
CopyEndWhileOpen ==
    /\ pc = "copy"
    /\ pc' = "endPoll"
    /\ UNCHANGED <<ret, ticks, lastCheck, failure, failedAt, exitCode, startPolls, endPolls, lastRead>>
    /\ UNCHANGED <<clientVars, podVars, handleVars, callerVars, deleteState, cuVars, patchVars>>

\* io.Copy(w, stream) returns: the stream is at its end; the error, if any,
\* is dropped and waitPodEnd is called
CopyEnd ==
    /\ pc = "copy"
    /\ logPending = 0
    /\ logState = "ended"
    /\ pc' = "endPoll"
    /\ UNCHANGED <<ret, ticks, lastCheck, failure, failedAt, exitCode, startPolls, endPolls, lastRead>>
    /\ UNCHANGED <<clientVars, podVars, handleVars, callerVars, deleteState, cuVars, patchVars>>

\* waitPodEnd: one read of the pod and one evaluation of the condition
WaitPodEndPoll ==
    /\ pc = "endPoll"
    /\ endPolls' = IF endPolls < MaxRunTimeoutTicks + 3 THEN endPolls + 1 ELSE endPolls
    /\ \E readOK \in BOOLEAN :
          LET r == PollResult(waitPodEndCond(readOK, podPhase), lastCheck) IN
          /\ lastRead' = IF readOK THEN "ok" ELSE "failed"
          /\ IF r = "continue"
             THEN /\ pc' = "endSleep"
                  /\ UNCHANGED <<failure, failedAt>>
             ELSE IF r = "nil"
             THEN /\ pc' = "exitCode"
                  /\ UNCHANGED <<failure, failedAt>>
             ELSE Abort(r, "waitPodEnd")
    /\ UNCHANGED <<ret, ticks, lastCheck, exitCode, startPolls>>
    /\ UNCHANGED <<clientVars, podVars, handleVars, callerVars, deleteState, cuVars, patchVars>>

\* the 3s ticker of waitPodEnd fires; with timeout 0 the poller has no timer
EndTick ==
    /\ pc = "endSleep"
    /\ podRunTimeout = 0 \/ ticks < podRunTimeout
    /\ ticks' = IF podRunTimeout = 0 THEN ticks ELSE ticks + 1
    /\ pc' = "endPoll"
    /\ UNCHANGED <<ret, lastCheck, failure, failedAt, exitCode, startPolls, endPolls, lastRead>>
    /\ UNCHANGED <<clientVars, podVars, handleVars, callerVars, deleteState, cuVars, patchVars>>

\* the podRunTimeout timer of waitPodEnd fires: a last check follows
EndTimeout ==
    /\ pc = "endSleep"
    /\ podRunTimeout # 0
    /\ ticks >= podRunTimeout
    /\ lastCheck' = TRUE
    /\ pc' = "endPoll"
    /\ UNCHANGED <<ret, ticks, failure, failedAt, exitCode, startPolls, endPolls, lastRead>>
    /\ UNCHANGED <<clientVars, podVars, handleVars, callerVars, deleteState, cuVars, patchVars>>
\* the loop of podExitCode over p.Status.ContainerStatuses: the exit code of
\* the first status whose State.Terminated is set
RECURSIVE firstTerminated(_)
firstTerminated(statuses) ==
    IF statuses = <<>> THEN [code |-> 1, err |-> "ErrPodStillRunning"]
    ELSE IF ~Head(statuses).terminated THEN firstTerminated(Tail(statuses))
    ELSE [code |-> Head(statuses).exitCode, err |-> "nil"]

\* podExitCode returning its placeholder 1 instead of state.ExitCode
podExitCodePlaceholder(readOK, statuses) ==
    IF ~readOK THEN [code |-> 1, err |-> "ReadErr"]
    ELSE [code |-> 1, err |-> firstTerminated(statuses).err]

\* podExitCode: one read of the pod, then the loop
podExitCode(readOK, statuses) ==
    IF ~readOK THEN [code |-> 1, err |-> "ReadErr"]
    ELSE firstTerminated(statuses)

\* the error of podExitCode dropped: the code it returned is sent
PodExitCodeErrDropped ==
    /\ pc = "exitCode"
    /\ \E readOK \in BOOLEAN :
          exitCode' = podExitCode(readOK, containerStatuses).code
    /\ pc' = "send"
    /\ UNCHANGED <<ret, ticks, lastCheck, failure, failedAt, startPolls, endPolls, lastRead>>
    /\ UNCHANGED <<clientVars, podVars, handleVars, callerVars, deleteState, cuVars, patchVars>>

\* exitCode, err := k.podExitCode(pod)
PodExitCode ==
    /\ pc = "exitCode"
    /\ \E readOK \in BOOLEAN :
          LET r == podExitCode(readOK, containerStatuses) IN
          IF r.err = "nil"
          THEN /\ exitCode' = r.code
               /\ pc' = "send"
               /\ UNCHANGED <<failure, failedAt>>
          ELSE /\ Abort(r.err, "podExitCode")
               /\ UNCHANGED exitCode
    /\ UNCHANGED <<ret, ticks, lastCheck, startPolls, endPolls, lastRead>>
    /\ UNCHANGED <<clientVars, podVars, handleVars, callerVars, deleteState, cuVars, patchVars>>

\* what the caller is willing to do with its two handles
CallerReads ==
    /\ callerMode \in {"eofFirst", "drain", "closer"}
    /\ ~readerEOF
    /\ ~rClosed
CallerReceives ==
    /\ ~callerSawClose
    /\ callerMode = "eofFirst" => readerEOF

\* the send followed by an explicit close(exitCodeChan), on top of the
\* deferred one
SendExitCodeAndClose ==
    /\ pc = "send"
    /\ CallerReceives
    /\ chanValues' = Append(chanValues, exitCode)
    /\ sendAfterClose' = (sendAfterClose \/ chanClosed)
    /\ chanCloses' = chanCloses + 1
    /\ pc' = "spawnDelete"
    /\ UNCHANGED <<callerMode, readerBytes, readerEOF, callerSawClose>>
    /\ UNCHANGED <<pipeBuf, wClosed, rClosed, copied>>
    /\ UNCHANGED <<ret, ticks, lastCheck, failure, failedAt, exitCode, startPolls, endPolls, lastRead>>
    /\ UNCHANGED <<clientVars, podVars, deleteState, cuVars, patchVars>>

\* exitCodeChan <- exitCode on the unbuffered channel: the send completes
\* together with the caller's receive
SendExitCode ==
    /\ pc = "send"
    /\ CallerReceives
    /\ chanValues' = Append(chanValues, exitCode)
    /\ sendAfterClose' = (sendAfterClose \/ chanClosed)
    /\ pc' = "spawnDelete"
    /\ UNCHANGED <<callerMode, readerBytes, readerEOF, callerSawClose>>
    /\ UNCHANGED <<pipeBuf, wClosed, rClosed, chanCloses, copied>>
    /\ UNCHANGED <<ret, ticks, lastCheck, failure, failedAt, exitCode, startPolls, endPolls, lastRead>>
    /\ UNCHANGED <<clientVars, podVars, deleteState, cuVars, patchVars>>

\* k.DeletePod(pod.Namespace, pod.Name) without go: the goroutine goes on
\* when the delete has returned
SpawnDeleteAwaited ==
    /\ pc = "spawnDelete"
    /\ \E ok \in BOOLEAN :
          IF confOK /\ ok /\ podPhase # "Absent"
          THEN /\ podPhase' = "Absent"
               /\ containerStatuses' = <<>>
               /\ deleteState' = "ok"
          ELSE /\ deleteState' = "failed"
               /\ UNCHANGED <<podPhase, containerStatuses>>
    /\ pc' = "deferW"
    /\ UNCHANGED <<logState, logPending, produced, exited>>
    /\ UNCHANGED <<ret, ticks, lastCheck, failure, failedAt, exitCode, startPolls, endPolls, lastRead>>
    /\ UNCHANGED <<clientVars, handleVars, callerVars, cuVars, patchVars>>

\* go k.DeletePod(pod.Namespace, pod.Name)
SpawnDelete ==
    /\ pc = "spawnDelete"
    /\ deleteState' = "pending"
    /\ pc' = "deferW"
    /\ UNCHANGED <<ret, ticks, lastCheck, failure, failedAt, exitCode, startPolls, endPolls, lastRead>>
    /\ UNCHANGED <<clientVars, podVars, handleVars, callerVars, cuVars, patchVars>>

\* w.Close() placed after the send instead of in the deferred function: the
\* early returns skip it
DeferWCloseOnSuccess ==
    /\ pc = "deferW"
    /\ wClosed' = (failure = "nil")
    /\ pc' = "deferChan"
    /\ UNCHANGED <<pipeBuf, rClosed, chanCloses, sendAfterClose, copied>>
    /\ UNCHANGED <<ret, ticks, lastCheck, failure, failedAt, exitCode, startPolls, endPolls, lastRead>>
    /\ UNCHANGED <<clientVars, podVars, callerVars, deleteState, cuVars, patchVars>>

\* deferred function, first statement: w.Close()
DeferWClose ==
    /\ pc = "deferW"
    /\ wClosed' = TRUE
    /\ pc' = "deferChan"
    /\ UNCHANGED <<pipeBuf, rClosed, chanCloses, sendAfterClose, copied>>
    /\ UNCHANGED <<ret, ticks, lastCheck, failure, failedAt, exitCode, startPolls, endPolls, lastRead>>
    /\ UNCHANGED <<clientVars, podVars, callerVars, deleteState, cuVars, patchVars>>

\* a deferred function that also deletes the pod, on every path
DeferChanCloseAndDelete ==
    /\ pc = "deferChan"
    /\ chanCloses' = chanCloses + 1
    /\ deleteState' = "pending"
    /\ pc' = "done"
    /\ UNCHANGED <<pipeBuf, wClosed, rClosed, sendAfterClose, copied>>
    /\ UNCHANGED <<ret, ticks, lastCheck, failure, failedAt, exitCode, startPolls, endPolls, lastRead>>
    /\ UNCHANGED <<clientVars, podVars, callerVars, cuVars, patchVars>>

\* deferred function, second statement: close(exitCodeChan)
DeferChanClose ==
    /\ pc = "deferChan"
    /\ chanCloses' = chanCloses + 1
    /\ pc' = "done"
    /\ UNCHANGED <<pipeBuf, wClosed, rClosed, sendAfterClose, copied>>
    /\ UNCHANGED <<ret, ticks, lastCheck, failure, failedAt, exitCode, startPolls, endPolls, lastRead>>
    /\ UNCHANGED <<clientVars, podVars, callerVars, deleteState, cuVars, patchVars>>

\* DeletePod in its own goroutine; its error is dropped
DeletePod ==
    /\ deleteState = "pending"
    /\ \E ok \in BOOLEAN :
          IF confOK /\ ok /\ podPhase # "Absent"
          THEN /\ podPhase' = "Absent"
               /\ containerStatuses' = <<>>
               /\ deleteState' = "ok"
          ELSE /\ deleteState' = "failed"
               /\ UNCHANGED <<podPhase, containerStatuses>>
    /\ UNCHANGED <<logState, logPending, produced, exited>>
    /\ UNCHANGED <<clientVars, goVars, handleVars, callerVars, cuVars, patchVars>>

\* ------------------------------------------------------ the caller of PodRun
\* r.Read takes the chunk io.Copy is writing; w.Write returns
CallerRead ==
    /\ pc = "copyWrite"
    /\ pipeBuf = 1
    /\ CallerReads
    /\ pipeBuf' = 0
    /\ readerBytes' = readerBytes + 1
    /\ pc' = "copy"
    /\ UNCHANGED <<callerMode, readerEOF, chanValues, callerSawClose>>
    /\ UNCHANGED <<wClosed, rClosed, chanCloses, sendAfterClose, copied>>
    /\ UNCHANGED <<ret, ticks, lastCheck, failure, failedAt, exitCode, startPolls, endPolls, lastRead>>
    /\ UNCHANGED <<clientVars, podVars, deleteState, cuVars, patchVars>>

\* r.Read returns io.EOF: the write end is closed
CallerReadEOF ==
    /\ ret = "handles"
    /\ CallerReads
    /\ wClosed
    /\ pipeBuf = 0
    /\ readerEOF' = TRUE
    /\ UNCHANGED <<callerMode, readerBytes, chanValues, callerSawClose>>
    /\ UNCHANGED <<clientVars, podVars, goVars, handleVars, deleteState, cuVars, patchVars>>

\* r.Close(): the caller gives up the output stream
CallerCloseReader ==
    /\ ret = "handles"
    /\ callerMode = "closer"
    /\ ~rClosed
    /\ rClosed' = TRUE
    /\ UNCHANGED <<pipeBuf, wClosed, chanCloses, sendAfterClose, copied>>
    /\ UNCHANGED <<clientVars, podVars, goVars, callerVars, deleteState, cuVars, patchVars>>

\* <-exitCodeChan returns the zero value with ok = false: the channel is closed
CallerRecvClosed ==
    /\ ret = "handles"
    /\ CallerReceives
    /\ chanClosed
    /\ callerSawClose' = TRUE
    /\ UNCHANGED <<callerMode, readerBytes, readerEOF, chanValues>>
    /\ UNCHANGED <<clientVars, podVars, goVars, handleVars, deleteState, cuVars, patchVars>>

\* --------------------------------------------------------- specifications
Environment ==
    \/ PodSchedule
    \/ PodWrite
    \/ \E c \in ExitCodes : PodExit(c)
    \/ PodEvict
    \/ LogStreamEnd

Goroutine ==
    \/ WaitPodStartPoll
    \/ StartTick
    \/ StartTimeout
    \/ OpenLogs
    \/ CopyRead
    \/ CopyWriteFails
    \/ CopyEnd
    \/ WaitPodEndPoll
    \/ EndTick
    \/ EndTimeout
    \/ PodExitCode
    \/ SpawnDelete
    \/ DeferWClose
    \/ DeferChanClose

Next ==
    \/ PodRun
    \/ Environment
    \/ Goroutine
    \/ SendExitCode
    \/ CallerRead
    \/ CallerReadEOF
    \/ CallerCloseReader
    \/ CallerRecvClosed
    \/ DeletePod

Spec == Init /\ [][Next]_vars

\* the Go scheduler runs every goroutine that can take a step, timers fire,
\* and the caller keeps using its handles; of the external system only the
\* end of the log stream of a terminated pod is certain
FairSpec ==
    /\ Spec
    /\ WF_vars(LogStreamEnd /\ PodTerminal)
    /\ WF_vars(Goroutine)
    /\ WF_vars(SendExitCode)
    /\ WF_vars(CallerRead)
    /\ WF_vars(CallerReadEOF)
    /\ WF_vars(CallerRecvClosed)
    /\ WF_vars(DeletePod)
\* ------------------------------------------------------ create-or-update
\* a fallback to create on any failed update, not only on NotFound
IsNotFoundAnyError(err) == err # "nil"

\* Client.IsNotFound
IsNotFound(err) == err = "NotFound"

\* outcome of Update(manifest) in the store: NotFound when the resource does
\* not exist, otherwise success; any request may fail for another reason
UpdateOutcomes(kind) ==
    (IF store[kind] = "absent" THEN {"NotFound"} ELSE {"nil"}) \cup {"Conflict"}

\* outcome of Create(manifest) in the store: names are unique
CreateOutcomes(kind) ==
    (IF store[kind] = "absent" THEN {"nil"} ELSE {"AlreadyExists"}) \cup {"Forbidden"}

\* a write that the store acknowledges without storing the manifest
WrittenNothing(c) == UNCHANGED <<store, deployReplicas>>

\* the store after a successful write of the manifest
Written(c) ==
    /\ store' = [store EXCEPT ![cu[c].kind] = cu[c].manifest]
    /\ deployReplicas' = IF cu[c].kind = "deploy"
                         THEN [deployReplicas EXCEPT !.spec = cu[c].replicas]
                         ELSE deployReplicas

\* a request that the store refused leaves it as it was
Refused == UNCHANGED <<store, deployReplicas>>

\* deploySpecToK8sDeploy, cronJobSpecToK8sCronJob: the conversion of a spec
\* is a function of the spec
Convertible(m) == m # "bad"

\* history: the call of c ended with err; a success is remembered with the
\* store it left, unless the deployment was scaled or synchronised while the
\* call was in flight
Applied(c, err) ==
    lastApply' = IF err = "nil" /\ ~cu[c].disturbed
                 THEN [valid |-> TRUE, caller |-> c, kind |-> cu[c].kind,
                       manifest |-> cu[c].manifest, readOK |-> cu[c].readOK,
                       count |-> IF lastApply.valid /\ lastApply.caller = c
                                 THEN 2 ELSE 1,
                       store |-> store', repl |-> deployReplicas']
                 ELSE NoApply

\* currentPodReplicasFromDeploy: Status.Replicas of the deployment, 1 when
\* the read fails or it is below 1
currentPodReplicasFromDeploy(readOK) ==
    IF ~readOK \/ store["deploy"] = "absent" \/ deployReplicas.status < 1
    THEN 1
    ELSE deployReplicas.status

\* the calls of one behaviour address one resource: resources of different
\* kinds share nothing in the store, so one kind is exercised at a time
OneResource(kind) ==
    /\ \A k \in Kinds \ {kind} : store[k] = "absent"
    /\ \A c \in Callers : cu[c].pc # "idle" => cu[c].kind = kind

\* the deployment of an application is applied by one caller at a time, its
\* deploy operation; the scaling and the controller act alongside it
OneDeploy(c, kind) ==
    kind = "deploy" => \A d \in Callers \ {c} : cu[d].pc = "idle"

\* entry of a CreateOrUpdate* handler up to its first request: buildClient,
\* and for a cron job the conversion of the spec
CUBegin(c, kind, m) ==
    /\ cu[c].pc = "idle"
    /\ OneResource(kind)
    /\ OneDeploy(c, kind)
    /\ cu' = [cu EXCEPT ![c] =
                IF ~confOK
                THEN [IdleCU EXCEPT !.pc = "done", !.kind = kind,
                                    !.manifest = m, !.result = "BuildErr"]
                ELSE IF kind = "cronjob" /\ ~Convertible(m)
                THEN [IdleCU EXCEPT !.pc = "done", !.kind = kind,
                                    !.manifest = m, !.result = "ConvErr"]
                ELSE [IdleCU EXCEPT !.pc = IF kind = "deploy"
                                           THEN "replicas" ELSE "update",
                                    !.kind = kind, !.manifest = m,
                                    !.wasAbsent = (store[kind] = "absent")]]
    /\ lastApply' = IF /\ lastApply.valid
                       /\ lastApply.caller = c
                       /\ lastApply.kind = kind
                       /\ lastApply.manifest = m
                    THEN lastApply ELSE NoApply
    /\ UNCHANGED <<store, deployReplicas, lastScale>>
    /\ UNCHANGED <<clientVars, runVars, patchVars>>

\* CreateOrUpdateDeploy: read the current replicas, convert the spec
CUReplicas(c) ==
    /\ cu[c].pc = "replicas"
    /\ \E readOK \in BOOLEAN :
          cu' = [cu EXCEPT ![c] =
                   IF Convertible(cu[c].manifest)
                   THEN [@ EXCEPT !.pc = "update", !.readOK = readOK,
                                  !.replicas = currentPodReplicasFromDeploy(readOK)]
                   ELSE [@ EXCEPT !.pc = "done", !.result = "ConvErr"]]
    /\ UNCHANGED <<store, deployReplicas, lastScale, lastApply>>
    /\ UNCHANGED <<clientVars, runVars, patchVars>>

\* create first and return its error, with no update of an existing resource
CUUpdateCreateFirst(c) ==
    /\ cu[c].pc = "update"
    /\ \E e \in CreateOutcomes(cu[c].kind) :
          /\ IF e = "nil" THEN Written(c) ELSE Refused
          /\ cu' = [cu EXCEPT ![c] = [@ EXCEPT !.pc = "done", !.crtErr = e,
                                               !.result = e]]
          /\ Applied(c, e)
    /\ UNCHANGED lastScale
    /\ UNCHANGED <<clientVars, runVars, patchVars>>

\* _, err = Update(manifest); the handler returns err unless IsNotFound(err)
CUUpdate(c) ==
    /\ cu[c].pc = "update"
    /\ \E e \in UpdateOutcomes(cu[c].kind) :
          /\ IF e = "nil" THEN Written(c) ELSE Refused
          /\ cu' = [cu EXCEPT ![c] =
                      IF IsNotFound(e)
                      THEN [@ EXCEPT !.pc = "create", !.updErr = e]
                      ELSE [@ EXCEPT !.pc = "done", !.updErr = e, !.result = e]]
          /\ IF IsNotFound(e) THEN UNCHANGED lastApply ELSE Applied(c, e)
    /\ UNCHANGED lastScale
    /\ UNCHANGED <<clientVars, runVars, patchVars>>

\* the fallback create treating AlreadyExists as success
CUCreateIgnoreExists(c) ==
    /\ cu[c].pc = "create"
    /\ \E e \in CreateOutcomes(cu[c].kind) :
          /\ IF e = "nil" THEN Written(c) ELSE Refused
          /\ cu' = [cu EXCEPT ![c] =
                      [@ EXCEPT !.pc = "done", !.crtErr = e,
                                !.result = IF e = "AlreadyExists" THEN "nil" ELSE e]]
          /\ Applied(c, e)
    /\ UNCHANGED lastScale
    /\ UNCHANGED <<clientVars, runVars, patchVars>>

\* _, err = Create(manifest); return err
CUCreate(c) ==
    /\ cu[c].pc = "create"
    /\ \E e \in CreateOutcomes(cu[c].kind) :
          /\ IF e = "nil" THEN Written(c) ELSE Refused
          /\ cu' = [cu EXCEPT ![c] = [@ EXCEPT !.pc = "done", !.crtErr = e,
                                               !.result = e]]
          /\ Applied(c, e)
    /\ UNCHANGED lastScale
    /\ UNCHANGED <<clientVars, runVars, patchVars>>

\* the caller has the result and may call again
CUReturn(c) ==
    /\ cu[c].pc = "done"
    /\ cu' = [cu EXCEPT ![c] = IdleCU]
    /\ UNCHANGED <<store, deployReplicas, lastScale, lastApply>>
    /\ UNCHANGED <<clientVars, runVars, patchVars>>

\* ------------------------------------------------------- patch operations
\* []*app.EnvVar and []string arguments of the environment operations
DistinctKeys(evs) == \A i, j \in DOMAIN evs : evs[i].Key = evs[j].Key => i = j
EnvVarLists ==
    {evs \in UNION {[1..n -> [Key : EnvNames, Value : Values]] : n \in 0..MaxEnvVars} :
        DistinctKeys(evs)}
NameLists ==
    {ns \in UNION {[1..n -> EnvNames] : n \in 0..MaxEnvVars} :
        \A i, j \in DOMAIN ns : ns[i] = ns[j] => i = j}
AnnotationMaps ==
    {NilMap} \cup {[nil |-> FALSE, m |-> m] : m \in [AnnKeys -> Values \cup {NoVar}]}

\* convertAppEnvVar: {"name": Key, "value": Value} for every variable
convertAppEnvVar(evs) ==
    [i \in DOMAIN evs |-> [name |-> evs[i].Key, value |-> evs[i].Value]]

\* the elements without the "$patch" directive
convertAppDeleteEnvVarNoDirective(evNames) ==
    [i \in DOMAIN evNames |-> [name |-> evNames[i]]]

\* convertAppDeleteEnvVar: {"name": name, "$patch": "delete"} for every name
convertAppDeleteEnvVar(evNames) ==
    [i \in DOMAIN evNames |-> [name |-> evNames[i], patch |-> "delete"]]

\* the reference of a variable to the key of its name in a secret
SecretRef(secretName) == CASE secretName = "s1" -> "secretKeyRef:s1"

\* convertAppSecretEnvVar: {"name": s, "valueFrom": {"secretKeyRef":
\* {"key": s, "name": secretName}}} for every secret key s
convertAppSecretEnvVar(secretName, secrets) ==
    [i \in DOMAIN secrets |->
        [name |-> secrets[i],
         valueFrom |-> [secretKeyRef |-> [key |-> secrets[i], name |-> secretName]]]]

\* a value of a type encoding/json does not support, such as a list that
\* holds a channel
Unserializable == <<[unsupported |-> TRUE]>>

\* json.Marshal(v): the error, "nil" for none
jsonMarshal(v) ==
    IF \E i \in DOMAIN v : "unsupported" \in DOMAIN v[i]
    THEN "UnsupportedTypeError" ELSE "nil"

\* prepareEnvVarsPath with patchDeployEnvVarsTmpl: the change-cause
\* annotation, the date annotation of the pod template stamped time.Now(),
\* and the env list of the container called name
prepareEnvVarsPath(name, now, v) ==
    [changeCause |-> "update env vars", date |-> now, container |-> name, env |-> v]

\* a payload that is not JSON
Malformed == [malformed |-> TRUE]

\* fmt.Sprintf(patchDeployRollbackToRevisionTmpl, revision): the string is
\* spliced in as a JSON value, a number when it is a numeral
RevisionNumber(revision) == CASE revision = "1" -> 1 [] revision = "3" -> 3

\* the rollback payload carrying a replica count as well
RollbackPatchWithReplicas(revision) ==
    IF revision \in {"1", "3"}
    THEN [rollbackTo |-> RevisionNumber(revision), replicas |-> 1]
    ELSE Malformed

RollbackPatch(revision) ==
    IF revision \in {"1", "3"}
    THEN [rollbackTo |-> RevisionNumber(revision)]
    ELSE Malformed

\* fmt.Sprintf(patchDeployReplicasTmpl, replicas)
ReplicasPatch(replicas) == [replicas |-> replicas]

\* the payload of an empty map whatever the annotations
prepareServiceAnnotationsEmpty(annotations) ==
    [annotations |-> [null |-> FALSE, m |-> NoAnnotations]]

\* prepareServiceAnnotations: json.Marshal of the map, null for a nil map
prepareServiceAnnotations(annotations) ==
    [annotations |-> [null |-> annotations.nil, m |-> annotations.m]]

\* strategic merge of one element of an env list (merge key "name"): the
\* "$patch": "delete" directive removes the variable, any other element is
\* merged field by field into the variable of that name, or added
MergeEnvElement(env, e) ==
    [env EXCEPT ![e.name] =
        IF "patch" \in DOMAIN e /\ e.patch = "delete" THEN NoVar
        ELSE IF "value" \in DOMAIN e THEN e.value
        ELSE IF "valueFrom" \in DOMAIN e THEN SecretRef(e.valueFrom.secretKeyRef.name)
        ELSE IF @ = NoVar THEN "" ELSE @]

RECURSIVE MergeEnv(_, _)
MergeEnv(env, elems) ==
    IF elems = <<>> THEN env
    ELSE MergeEnv(MergeEnvElement(env, Head(elems)), Tail(elems))

\* strategic merge of a map of strings: null removes the map, a key of the
\* patch replaces or adds that key, every other key stays
MergeAnnotations(old, a) ==
    IF a.null THEN NoAnnotations
    ELSE [k \in AnnKeys |-> IF a.m[k] # NoVar THEN a.m[k] ELSE old[k]]

\* strategic merge of a payload into a document: a field the payload does
\* not name stays; the containers list merges by name
StrategicMerge(doc, patch) ==
    [f \in DOMAIN doc |->
        IF f = "container" \/ f \notin DOMAIN patch THEN doc[f]
        ELSE IF f = "env"
             THEN IF patch.container = doc.container
                  THEN MergeEnv(doc.env, patch.env) ELSE doc.env
        ELSE IF f = "annotations" THEN MergeAnnotations(doc.annotations, patch.annotations)
        ELSE patch[f]]

\* the deployment as one document
DeployView ==
    [changeCause |-> deployDoc.changeCause, date |-> deployDoc.date,
     container |-> deployDoc.container, env |-> deployDoc.env,
     rollbackTo |-> deployDoc.rollbackTo, replicas |-> deployReplicas.spec]

\* the errors a Patch request can end with: buildClient fails; the resource
\* is not there; the payload is not JSON; else the store accepts or refuses
PatchOutcomes(exists, patch) ==
    IF ~confOK THEN {"BuildErr"}
    ELSE IF ~exists THEN {"NotFound"}
    ELSE IF "malformed" \in DOMAIN patch THEN {"BadRequest"}
    ELSE {"nil", "Forbidden"}

\* a merged element that has both a value and a valueFrom is not a valid
\* variable: the store refuses the patched resource
PatchInvalid(env, elems) ==
    \E i \in DOMAIN elems :
        \/ "valueFrom" \in DOMAIN elems[i] /\ env[elems[i].name] \in Values
        \/ "value" \in DOMAIN elems[i]
              /\ env[elems[i].name] \in {SecretRef(n) : n \in SecretNames}

\* the errors a Patch request of an env payload can end with
EnvPatchOutcomes(exists, env, data) ==
    IF "nil" \in PatchOutcomes(exists, data) /\ PatchInvalid(env, data.env)
    THEN {"Invalid", "Forbidden"}
    ELSE PatchOutcomes(exists, data)

\* the Patch requests a patch operation issued: none when buildClient
\* failed, else the one request whose result is returned
Requests(err) == IF err = "BuildErr" THEN 0 ELSE 1

\* Deployments(namespace).Patch(name, StrategicMergePatchType, data)
PatchDeployment(patch, err) ==
    LET d == IF err = "nil" THEN StrategicMerge(DeployView, patch) ELSE DeployView
    IN /\ deployDoc' = [changeCause |-> d.changeCause, date |-> d.date,
                        container |-> d.container, env |-> d.env,
                        rollbackTo |-> d.rollbackTo]
       /\ deployReplicas' = [deployReplicas EXCEPT !.spec = d.replicas]

\* history: the operation, its error and the Patch requests it issued
Patched(op, err, requests) == [op |-> op, err |-> err, requests |-> requests]

\* history: the calls in flight when the deployment is scaled or synchronised
Disturbed ==
    [c \in Callers |->
        IF cu[c].pc \in {"replicas", "update", "create"}
        THEN [cu[c] EXCEPT !.disturbed = TRUE]
        ELSE cu[c]]

\* DeploySetReplicas: one strategic merge patch of spec.replicas
DeploySetReplicas(n) ==
    \E err \in PatchOutcomes(store["deploy"] # "absent", ReplicasPatch(n)) :
        /\ PatchDeployment(ReplicasPatch(n), err)
        /\ lastPatch' = Patched("replicas", err, Requests(err))
        /\ lastScale' = IF err # "nil" THEN lastScale
                        ELSE IF \E c \in Callers :
                                   cu[c].pc \in {"replicas", "update", "create"}
                        THEN -1 ELSE n
        /\ lastApply' = IF err = "nil" THEN NoApply ELSE lastApply
        /\ cu' = IF err = "nil" THEN Disturbed ELSE cu
        /\ UNCHANGED <<store, cronJob, svc>>
        /\ UNCHANGED <<clientVars, runVars>>

\* the deployment controller brings Status.Replicas to Spec.Replicas
ReplicaSync ==
    /\ store["deploy"] # "absent"
    /\ deployReplicas.status # deployReplicas.spec
    /\ deployReplicas' = [deployReplicas EXCEPT !.status = deployReplicas.spec]
    /\ lastApply' = NoApply
    /\ cu' = Disturbed
    /\ UNCHANGED <<store, lastScale>>
    /\ UNCHANGED <<clientVars, runVars, patchVars>>

CreateOrUpdate(c) ==
    \/ \E kind \in Kinds, m \in Manifests : CUBegin(c, kind, m)
    \/ CUReplicas(c)
    \/ CUUpdate(c)
    \/ CUCreate(c)
    \/ CUReturn(c)

NextApply ==
    \/ \E c \in Callers : CreateOrUpdate(c)
    \/ \E n \in 0..MaxReplicas : DeploySetReplicas(n)
    \/ ReplicaSync

\* the client used by the create-or-update calls, no PodRun session
InitApply ==
    /\ Init
    /\ podPhase = "Absent"
    /\ constructor = "outOfCluster"
    /\ podRunTimeout = 0
    /\ callerMode = "drain"

SpecApply == InitApply /\ [][NextApply]_vars

\* time.Now(): an instant later than the date stamped by any patch before
Now == IF deployDoc.date < MaxTime THEN {deployDoc.date + 1} ELSE {}

\* a patchDeployEnvVars that creates the deployment it does not find
patchDeployEnvVarsUpsert(op, v) ==
    \E now \in Now :
        LET data == prepareEnvVarsPath(AppName, now, v)
        IN \E err \in EnvPatchOutcomes(store["deploy"] # "absent", deployDoc.env, data) :
              /\ PatchDeployment(data, err)
              /\ store' = IF err = "NotFound" THEN [store EXCEPT !["deploy"] = "m1"]
                          ELSE store
              /\ lastPatch' = Patched(op, err, Requests(err))
              /\ UNCHANGED <<cu, lastScale, lastApply, cronJob, svc>>
              /\ UNCHANGED <<clientVars, runVars>>

\* patchDeployEnvVars: the payload is prepared first, an encoding error is
\* returned before the client is built; then one strategic merge patch of
\* the deployment
patchDeployEnvVars(op, v) ==
    IF jsonMarshal(v) # "nil"
    THEN /\ lastPatch' = Patched(op, "EncodeErr", 0)
         /\ UNCHANGED <<cuVars, deployDoc, cronJob, svc>>
         /\ UNCHANGED <<clientVars, runVars>>
    ELSE \E now \in Now :
        LET data == prepareEnvVarsPath(AppName, now, v)
        IN \E err \in EnvPatchOutcomes(store["deploy"] # "absent", deployDoc.env, data) :
              /\ PatchDeployment(data, err)
              /\ lastPatch' = Patched(op, err, Requests(err))
              /\ UNCHANGED <<store, cu, lastScale, lastApply, cronJob, svc>>
              /\ UNCHANGED <<clientVars, runVars>>

\* patchCronJobEnvVars: as patchDeployEnvVars, with patchCronJobEnvVarsTmpl
\* and a patch of the cron job; the date annotation of that template names
\* no field of a cron job
patchCronJobEnvVars(op, v) ==
    IF jsonMarshal(v) # "nil"
    THEN /\ lastPatch' = Patched(op, "EncodeErr", 0)
         /\ UNCHANGED <<cuVars, deployDoc, cronJob, svc>>
         /\ UNCHANGED <<clientVars, runVars>>
    ELSE \E now \in 1..MaxTime :
        LET data == prepareEnvVarsPath(AppName, now, v)
        IN \E err \in EnvPatchOutcomes(store["cronjob"] # "absent", cronJob.env, data) :
              /\ cronJob' = IF err = "nil" THEN StrategicMerge(cronJob, data) ELSE cronJob
              /\ lastPatch' = Patched(op, err, Requests(err))
              /\ UNCHANGED <<cuVars, deployDoc, svc>>
              /\ UNCHANGED <<clientVars, runVars>>

\* CreateOrUpdateDeployEnvVars: patchDeployEnvVars of convertAppEnvVar(evs)
CreateOrUpdateDeployEnvVars(evs) ==
    patchDeployEnvVars("setEnv", convertAppEnvVar(evs))

\* CreateOrUpdateCronJobEnvVars: patchCronJobEnvVars of convertAppEnvVar(evs)
CreateOrUpdateCronJobEnvVars(evs) ==
    patchCronJobEnvVars("setCronEnv", convertAppEnvVar(evs))

\* CreateOrUpdateDeploySecretEnvVars
CreateOrUpdateDeploySecretEnvVars(secretName, secrets) ==
    patchDeployEnvVars("setSecretEnv", convertAppSecretEnvVar(secretName, secrets))

\* CreateOrUpdateCronJobSecretEnvVars
CreateOrUpdateCronJobSecretEnvVars(secretName, secrets) ==
    patchCronJobEnvVars("setCronSecretEnv", convertAppSecretEnvVar(secretName, secrets))

\* DeleteDeployEnvVars: patchDeployEnvVars of convertAppDeleteEnvVar(evNames)
DeleteDeployEnvVars(evNames) ==
    patchDeployEnvVars("deleteEnv", convertAppDeleteEnvVar(evNames))

\* DeleteCronJobEnvVars: patchCronJobEnvVars of convertAppDeleteEnvVar(evNames)
DeleteCronJobEnvVars(evNames) ==
    patchCronJobEnvVars("deleteCronEnv", convertAppDeleteEnvVar(evNames))

\* DeployRollbackToRevision: one strategic merge patch of spec.rollbackTo
DeployRollbackToRevision(revision) ==
    \E err \in PatchOutcomes(store["deploy"] # "absent", RollbackPatch(revision)) :
        /\ PatchDeployment(RollbackPatch(revision), err)
        /\ lastPatch' = Patched("rollback", err, Requests(err))
        /\ UNCHANGED <<store, cu, lastScale, lastApply, cronJob, svc>>
        /\ UNCHANGED <<clientVars, runVars>>

\* SetServiceAnnotations: patchServiceAnnotations, one strategic merge patch
\* of metadata.annotations of the service
SetServiceAnnotations(annotations) ==
    \E err \in PatchOutcomes(svc.exists, prepareServiceAnnotations(annotations)) :
        /\ svc' = IF err = "nil"
                  THEN StrategicMerge(svc, prepareServiceAnnotations(annotations))
                  ELSE svc
        /\ lastPatch' = Patched("annotations", err, Requests(err))
        /\ UNCHANGED <<store, deployReplicas, cu, lastScale, lastApply, deployDoc, cronJob>>
        /\ UNCHANGED <<clientVars, runVars>>

\* the patches of maps and lists: environment, annotations
NextPatch ==
    \/ \E evs \in EnvVarLists : CreateOrUpdateDeployEnvVars(evs)
    \/ \E evNames \in NameLists : DeleteDeployEnvVars(evNames)
    \/ \E annotations \in AnnotationMaps : SetServiceAnnotations(annotations)

\* the patches of one field: rollback target, replica count
NextField ==
    \/ \E revision \in Revisions : DeployRollbackToRevision(revision)
    \/ \E n \in 0..MaxReplicas : DeploySetReplicas(n)

\* the client used by the patch operations; in the store either a
\* deployment with one replica and any environment, or a service with any
\* annotations
InitPatch ==
    /\ InitRun
    /\ podPhase = "Absent"
    /\ constructor = "outOfCluster"
    /\ podRunTimeout = 0
    /\ callerMode = "drain"
    /\ cronJob = NoCronJob
    /\ \/ /\ store = [k \in Kinds |-> IF k = "deploy" THEN "m1" ELSE "absent"]
          /\ deployReplicas = [spec |-> 1, status |-> 1]
          /\ \E env \in [EnvNames -> Values \cup {NoVar}] :
                deployDoc = [NoDoc EXCEPT !.env = env]
          /\ svc = NoService
       \/ /\ store = [k \in Kinds |-> "absent"]
          /\ deployReplicas = [spec |-> 0, status |-> 0]
          /\ deployDoc = NoDoc
          /\ \E m \in [AnnKeys -> Values \cup {NoVar}] :
                svc = [exists |-> TRUE, annotations |-> m]

SpecPatch == InitPatch /\ [][NextPatch]_vars

SpecField == InitPatch /\ [][NextField]_vars

\* every patch operation of the client, and the two env patches given a
\* value that cannot be encoded
NextPatchAll ==
    \/ \E evs \in EnvVarLists : CreateOrUpdateDeployEnvVars(evs)
    \/ \E evs \in EnvVarLists : CreateOrUpdateCronJobEnvVars(evs)
    \/ \E n \in SecretNames, secrets \in NameLists :
          CreateOrUpdateDeploySecretEnvVars(n, secrets)
    \/ \E n \in SecretNames, secrets \in NameLists :
          CreateOrUpdateCronJobSecretEnvVars(n, secrets)
    \/ \E evNames \in NameLists : DeleteDeployEnvVars(evNames)
    \/ \E evNames \in NameLists : DeleteCronJobEnvVars(evNames)
    \/ \E revision \in Revisions : DeployRollbackToRevision(revision)
    \/ \E n \in 0..MaxReplicas : DeploySetReplicas(n)
    \/ \E annotations \in AnnotationMaps : SetServiceAnnotations(annotations)
    \/ patchDeployEnvVars("patchEnv", Unserializable)
    \/ patchCronJobEnvVars("patchCronEnv", Unserializable)

\* any client; no deployment; in the store nothing, or a cron job, or a
\* service, never patched yet
InitPatchAll ==
    /\ InitRun
    /\ podPhase = "Absent"
    /\ constructor = "outOfCluster"
    /\ podRunTimeout = 0
    /\ callerMode = "drain"
    /\ deployDoc = NoDoc
    /\ cronJob = NoCronJob
    /\ deployReplicas = [spec |-> 0, status |-> 0]
    /\ \E present \in {"none", "cronjob", "service"} :
          /\ store = [k \in Kinds |-> IF k = present THEN "m1" ELSE "absent"]
          /\ svc = [exists |-> present = "service", annotations |-> NoAnnotations]

SpecPatchAll == InitPatchAll /\ [][NextPatchAll]_vars
\* ------------------------------------------------------------------ claims
\* what the caller of PodRun can observe of a session: the return value and
\* the state of its two handles
Observation ==
    [ret |-> ret,
     stream |-> IF wClosed THEN "closed" ELSE "open",
     bytes |-> readerBytes,
     channel |-> IF chanClosed THEN "closed" ELSE "open",
     values |-> chanValues]

\* what the caller observes after waitPodStart returned ErrPodRunFailed: the
\* goroutine returns at once and the deferred function closes both handles
HardFailureObservation ==
    [ret |-> "handles", stream |-> "closed", bytes |-> 0,
     channel |-> "closed", values |-> <<>>]

\* C1: a caller that reads the output stream to end-of-stream before it
\* receives from the completion channel is never blocked: once an exit code
\* is ready to be sent, the output stream is eventually closed.
C1_StreamClosesBeforeReceive ==
    (callerMode = "eofFirst" /\ pc = "send") ~> wClosed

\* C2: for a caller draining both handles, a session whose pod never reaches
\* a terminal phase eventually fails: output stream closed and completion
\* channel closed without a value.
C2_FailsByTimeout ==
    (ret = "handles" /\ callerMode = "drain")
        ~> (PodTerminal \/ (wClosed /\ chanClosed /\ chanValues = <<>>))

C4_ClosedWhenObserved ==
    chanValues # <<>> => wClosed

\* C5: the end-wait runs concurrently with the log copy: once the log stream
\* is open and being copied, the end-wait makes its first poll whether or
\* not the copy ever finishes.
C5_EndWaitDuringCopy ==
    (callerMode = "drain" /\ pc = "copy" /\ logState = "open") ~> endPolls > 0

\* C6: after any failure inside the session the goroutine only runs its
\* deferred function, no value was or will be emitted, and at the end both
\* the output stream and the completion channel are closed.
C6_FailureClosesBoth ==
    failure # "nil" =>
        /\ chanValues = <<>>
        /\ pc \in {"deferW", "deferChan", "done"}
        /\ pc = "done" => (wClosed /\ chanClosed)

\* C6 witness: the end-wait timed out and the session is over
C6_Witness ==
    /\ pc = "done" /\ failedAt = "waitPodEnd" /\ failure = "ErrWaitTimeout"
    /\ wClosed /\ chanClosed /\ chanValues = <<>>

\* C7: the completion channel carries at most one value, nothing is sent
\* after it is closed, and it is closed at most once.
C7_AtMostOnce ==
    /\ Len(chanValues) <= 1
    /\ ~sendAfterClose
    /\ chanCloses <= 1

\* C7 witness: one value was received and the channel was then closed
C7_Witness ==
    Len(chanValues) = 1 /\ chanCloses = 1 /\ callerSawClose

\* C8: a start-wait poll that finds the pod Failed ends the wait at once
\* (no sleep until the timeout), and after ErrPodRunFailed the log stream is
\* never opened, no end-wait poll and no exit-code read is made and no value
\* is emitted.
C8_FailedStopsStart ==
    /\ [][(pc = "startPoll" /\ podPhase = "Failed" /\ pc' # pc)
            => (pc' = "deferW" /\ failure' \in {"ErrPodRunFailed", "ReadErr"})]_vars
    /\ [](failure = "ErrPodRunFailed" =>
            /\ failedAt = "waitPodStart"
            /\ logState = "unopened"
            /\ endPolls = 0
            /\ exitCode = -1
            /\ chanValues = <<>>)

\* C8 witness: the session ended with ErrPodRunFailed before the timeout
C8_Witness ==
    /\ pc = "done" /\ failure = "ErrPodRunFailed" /\ podPhase = "Failed"
    /\ ~lastCheck /\ ticks < StartTimeoutTicks

\* C9: after a start-wait timeout the caller of PodRun observes something
\* different from what it observes after the start-wait hard failure.
C9_TimeoutDistinguishable ==
    (pc = "done" /\ failedAt = "waitPodStart" /\ failure = "ErrWaitTimeout")
    => Observation # HardFailureObservation

\* C10: a create is attempted only after an update that failed with
\* NotFound, and always then; any other update error is the result and no
\* create is issued; the result of a fallback create is the result.
C10_UpdateThenCreate ==
    \A c \in Callers :
        /\ cu[c].crtErr # "none" => cu[c].updErr = "NotFound"
        /\ cu[c].pc = "create" <=> (cu[c].updErr = "NotFound" /\ cu[c].crtErr = "none")
        /\ (cu[c].pc = "done" /\ cu[c].updErr = "NotFound")
              => (cu[c].crtErr # "none" /\ cu[c].result = cu[c].crtErr)
        /\ (cu[c].pc = "done" /\ cu[c].updErr \notin {"none", "NotFound"})
              => (cu[c].crtErr = "none" /\ cu[c].result = cu[c].updErr)

\* C10 witness: one call fell back to create and returned the create's
\* error, another returned its update error without creating
C10_Witness ==
    /\ cu[1].pc = "done" /\ cu[1].updErr = "NotFound" /\ cu[1].result = "Forbidden"
    /\ cu[2].pc = "done" /\ cu[2].updErr = "Conflict" /\ cu[2].crtErr = "none"
\* the step in which the call of c returns from its update or create
Returns(c) == cu[c].pc \in {"update", "create"} /\ cu'[c].pc = "done"

\* the call of c that returns repeats c's last successful call, same input,
\* with nothing else having acted on the store in between
Repeats(c) == Returns(c) /\ lastApply.valid /\ lastApply.caller = c

\* C11: a replica count set by DeploySetReplicas stays the deployment's
\* desired replica count through every CreateOrUpdateDeploy made afterwards.
C11_ScalePreserved ==
    lastScale # -1 => deployReplicas.spec = lastScale

\* C12: of two calls that both fell back to create on the same absent name
\* at most one create succeeds, exactly one unless the store refused for
\* another reason; the call rejected with AlreadyExists returns that error
\* and the stored resource is the winner's.
C12_RaceLoserGetsError ==
    \A c1, c2 \in Callers :
        (/\ c1 # c2
         /\ cu[c1].pc = "done" /\ cu[c1].updErr = "NotFound"
         /\ cu[c2].pc = "done" /\ cu[c2].updErr = "NotFound")
        => /\ ~(cu[c1].crtErr = "nil" /\ cu[c2].crtErr = "nil")
           /\ ("Forbidden" \notin {cu[c1].crtErr, cu[c2].crtErr}
                 => "nil" \in {cu[c1].crtErr, cu[c2].crtErr})
           /\ cu[c2].crtErr = "AlreadyExists"
                 => /\ cu[c2].result = "AlreadyExists"
                    /\ cu[c1].crtErr = "nil"
                    /\ store[cu[c2].kind] = cu[c1].manifest

\* C12 witness: both calls fell back to create; one created, the other was
\* rejected and returned AlreadyExists
C12_Witness ==
    /\ cu[1].pc = "done" /\ cu[1].updErr = "NotFound" /\ cu[1].result = "nil"
    /\ cu[2].pc = "done" /\ cu[2].updErr = "NotFound"
    /\ cu[2].result = "AlreadyExists"
    /\ cu[1].kind = "configmap" /\ cu[1].manifest # cu[2].manifest

\* C13 as claimed: a call repeated with the same input, nothing else acting
\* in between, succeeds (unless the store itself refuses the request) and
\* leaves the store as the first call left it.
C13_Idempotent ==
    [][\A c \in Callers :
          (Repeats(c) /\ cu'[c].result # "Conflict")
          => /\ cu'[c].result = "nil"
             /\ store' = lastApply.store
             /\ deployReplicas' = lastApply.repl]_vars

\* C13 amended: the repeated call finds the resource (its update is never
\* NotFound and it issues no create), it fails only when the store refuses
\* the update, and it leaves the stored manifests as the first call left
\* them; the deployment's replica count too, provided the read of the
\* current replicas succeeded in both calls or failed in both.
C13_IdempotentSameRead ==
    [][\A c \in Callers :
          Repeats(c)
          => /\ cu'[c].updErr \in {"nil", "Conflict"}
             /\ cu'[c].crtErr = "none"
             /\ cu'[c].result = cu'[c].updErr
             /\ store' = lastApply.store
             /\ cu'[c].readOK = lastApply.readOK
                   => deployReplicas' = lastApply.repl]_vars

\* C13 witness: CreateOrUpdateDeploy succeeded twice in succession with the
\* same input on a deployment that has replicas
C13_Witness ==
    /\ lastApply.valid /\ lastApply.count = 2 /\ lastApply.kind = "deploy"
    /\ store = lastApply.store /\ deployReplicas = lastApply.repl
    /\ deployReplicas.status = 2

\* C14: a successful create-or-update of a resource that was absent when
\* the call began leaves the resource in the store with the call's manifest.
C14_CreatedAsDesired ==
    [][\A c \in Callers :
          (Returns(c) /\ cu[c].wasAbsent /\ cu'[c].result = "nil")
          => /\ store'[cu[c].kind] = cu[c].manifest
             /\ cu[c].kind = "deploy" => deployReplicas'.spec = cu[c].replicas]_vars

\* C14 witness: a cron job that was absent was created with the manifest
C14_Witness ==
    /\ cu[1].pc = "done" /\ cu[1].wasAbsent /\ cu[1].crtErr = "nil"
    /\ cu[1].kind = "cronjob" /\ store["cronjob"] = cu[1].manifest
\* the steps in which a patch operation with the given input succeeds
SetEnvOK(evs) ==
    lastPatch'.op = "setEnv" /\ lastPatch'.err = "nil"
    /\ CreateOrUpdateDeployEnvVars(evs)
DeleteEnvOK(evNames) ==
    lastPatch'.op = "deleteEnv" /\ lastPatch'.err = "nil"
    /\ DeleteDeployEnvVars(evNames)
RollbackOK(revision) ==
    lastPatch'.op = "rollback" /\ lastPatch'.err = "nil"
    /\ DeployRollbackToRevision(revision)
SetAnnotationsOK(annotations) ==
    lastPatch'.op = "annotations" /\ lastPatch'.err = "nil"
    /\ SetServiceAnnotations(annotations)

\* C15: an environment-set patch with bindings K:V applied to a container
\* with environment E leaves every bound K with its V and every other
\* variable as in E; a delete patch removes the variables it names and
\* leaves every other variable as it was.
C15_EnvRoundTrip ==
    [][/\ \A evs \in EnvVarLists :
             SetEnvOK(evs)
             => /\ \A i \in DOMAIN evs :
                      deployDoc'.env[evs[i].Key] = evs[i].Value
                /\ \A k \in EnvNames \ {evs[i].Key : i \in DOMAIN evs} :
                      deployDoc'.env[k] = deployDoc.env[k]
       /\ \A evNames \in NameLists :
             DeleteEnvOK(evNames)
             => /\ \A i \in DOMAIN evNames : deployDoc'.env[evNames[i]] = NoVar
                /\ \A k \in EnvNames \ {evNames[i] : i \in DOMAIN evNames} :
                      deployDoc'.env[k] = deployDoc.env[k]]_vars

\* C15 witness: after two environment patches the last of which deleted K1,
\* K1 is gone and K2 and K3 have their values
C15_Witness ==
    /\ lastPatch = Patched("deleteEnv", "nil", 1)
    /\ deployDoc.date = 2
    /\ deployDoc.env = [k \in EnvNames |->
                          IF k = "K1" THEN NoVar ELSE IF k = "K2" THEN "b" ELSE "a"]

\* C16 as claimed: after a successful SetServiceAnnotations(A) the
\* annotations of the service are exactly A.
C16_AnnotationsReplaced ==
    [][\A annotations \in AnnotationMaps :
          SetAnnotationsOK(annotations)
          => svc'.annotations = annotations.m]_vars

\* C16 amended: after a successful SetServiceAnnotations(A) on a service
\* with annotations B every key of A has A's value and every key of B that
\* is absent from A keeps its value; a nil A removes all annotations.
C16_AnnotationsMerged ==
    [][\A annotations \in AnnotationMaps :
          SetAnnotationsOK(annotations)
          => \A k \in AnnKeys :
                svc'.annotations[k] =
                    IF annotations.nil THEN NoVar
                    ELSE IF annotations.m[k] # NoVar THEN annotations.m[k]
                    ELSE svc.annotations[k]]_vars

\* C16 witness: a successful SetServiceAnnotations left both keys set
C16_Witness ==
    /\ lastPatch = Patched("annotations", "nil", 1)
    /\ svc.exists
    /\ svc.annotations = [k \in AnnKeys |-> IF k = "x" THEN "a" ELSE "b"]

\* C17: the rollback patch for revision r names spec.rollbackTo.revision
\* only and a successful DeployRollbackToRevision changes nothing but the
\* rollback target; DeploySetReplicas changes nothing but spec.replicas.
C17_SingleFieldPatches ==
    [][/\ \A revision \in Revisions :
             RollbackOK(revision)
             => /\ DOMAIN RollbackPatch(revision) = {"rollbackTo"}
                /\ deployDoc' = [deployDoc EXCEPT
                                    !.rollbackTo = RevisionNumber(revision)]
                /\ UNCHANGED <<deployReplicas, store, svc>>
       /\ \A n \in 0..MaxReplicas :
             DeploySetReplicas(n)
             => /\ deployReplicas'.spec \in {n, deployReplicas.spec}
                /\ confOK /\ store["deploy"] # "absent"
                      => ENABLED (DeploySetReplicas(n) /\ deployReplicas'.spec = n)
                /\ deployReplicas'.status = deployReplicas.status
                /\ UNCHANGED <<deployDoc, store, svc>>]_vars

\* C17 witness: a rollback to revision 3 of a deployment that has replicas
\* and an environment
C17_Witness ==
    /\ lastPatch = Patched("rollback", "nil", 1)
    /\ deployDoc.rollbackTo = 3
    /\ deployDoc.env = [k \in EnvNames |-> IF k = "K1" THEN "a" ELSE NoVar]
    /\ deployReplicas.spec = 2
\* C18: the delete of the pod is issued only after the caller received the
\* exit code, in a goroutine of its own that the session does not wait for:
\* the two handles close whether or not the delete has finished, and the
\* delete, failing or not, changes nothing the caller observes.
C18_DeleteAsyncUnobserved ==
    /\ [][/\ (pc = "spawnDelete" /\ pc' # pc)
                => (deleteState' = "pending" /\ Observation' = Observation)
          /\ (deleteState = "pending" /\ deleteState' # "pending")
                => (Observation' = Observation /\ pc' = pc /\ failure' = failure)]_vars
    /\ [](/\ deleteState # "none" => chanValues = <<exitCode>>
          /\ pc = "deferW" => ENABLED DeferWClose
          /\ pc = "deferChan" => ENABLED DeferChanClose)

\* C18 witness: the value was delivered and both handles are closed while
\* the delete has not finished
C18_Witness ==
    /\ pc = "done" /\ deleteState = "pending"
    /\ chanValues = <<0>> /\ wClosed /\ chanClosed

\* C19: an exit-code read that finds no container status in the terminated
\* state after the end-wait saw a terminal phase ends the session with an
\* error: no code is kept, no value is emitted, no delete is issued.
C19_NoGuessedExitCode ==
    /\ [][(/\ pc = "exitCode" /\ pc' # pc
           /\ firstTerminated(containerStatuses).err # "nil")
            => /\ pc' = "deferW"
               /\ failure' \in {"ErrPodStillRunning", "ReadErr"}
               /\ exitCode' = -1]_vars
    /\ [](failure = "ErrPodStillRunning" =>
            /\ failedAt = "podExitCode"
            /\ exitCode = -1
            /\ chanValues = <<>>
            /\ deleteState = "none"
            /\ pc = "done" => (wClosed /\ chanClosed))

\* C19 witness: the pod is Failed without a terminated container status and
\* the session is over, both handles closed, no value
C19_Witness ==
    /\ pc = "done" /\ failure = "ErrPodStillRunning" /\ podPhase = "Failed"
    /\ endPolls > 0 /\ chanValues = <<>> /\ chanClosed /\ wClosed

\* C20: when PodRun returns an error nothing else of the session happens:
\* no goroutine, no start-wait or end-wait read, no log stream, no handle
\* written, closed or read, no delete.
C20_CreateFailureStartsNothing ==
    ret = "err" =>
        /\ pc = "notStarted"
        /\ startPolls = 0 /\ endPolls = 0
        /\ logState = "unopened"
        /\ deleteState = "none"
        /\ pipeBuf = 0 /\ ~wClosed /\ ~rClosed /\ chanCloses = 0
        /\ chanValues = <<>> /\ readerBytes = 0 /\ ~readerEOF /\ ~callerSawClose
        /\ failure = "nil" /\ exitCode = -1

\* C20 witness: PodRun failed on a pod that was already there, which has
\* been scheduled since
C20_Witness ==
    ret = "err" /\ confOK /\ podPhase = "Running"

\* C21: ordering within one session. The log stream is opened and the first
\* end-wait read is made only after the start-wait returned success (it saw
\* the pod Running or Succeeded); the exit code is read and delivered only
\* after the end-wait saw a terminal phase; and once the session has ended,
\* by a failure or by a delivered exit code, the output stream is eventually
\* closed.
C21_Ordering ==
    /\ [][/\ (pc' = "openLogs" /\ pc # "openLogs") =>
               (pc = "startPoll" /\ podPhase \in {"Running", "Succeeded"})
          /\ (logState' # "unopened" /\ logState = "unopened") =>
               (pc = "openLogs" /\ failure = "nil")
          /\ (endPolls' > 0 /\ endPolls = 0) =>
               (logState # "unopened" /\ failure = "nil")
          /\ (pc' = "exitCode" /\ pc # "exitCode") =>
               (pc = "endPoll" /\ PodTerminal)
          /\ (exitCode' # exitCode \/ chanValues' # chanValues) =>
               (endPolls > 0 /\ PodTerminal /\ failure = "nil")]_vars
    /\ (failure # "nil" \/ chanValues # <<>>) ~> wClosed

\* both waits polled more than once, the exit code was delivered and the
\* output stream was closed after it
C21_Witness ==
    /\ startPolls > 1
    /\ endPolls > 1
    /\ chanValues # <<>>
    /\ wClosed

\* C22: both waits evaluate their condition on entry, before any interval
\* has elapsed, so that a pod already in the awaited state is detected
\* without sleeping; every tick is followed by exactly one read of the pod;
\* and a failed read, at any tick and also at the last check after the
\* timer fired, aborts the wait at once with the read error: no further
\* read is made and the outcome is not the timeout error.
C22_ImmediateSingleReadAbort ==
    /\ [][/\ (startPolls = 0 /\ startPolls' # 0) =>
                /\ ticks = 0 /\ ~lastCheck
                /\ (lastRead' = "ok" /\ podPhase \in {"Running", "Succeeded"})
                      => pc' = "openLogs"
          /\ (endPolls = 0 /\ endPolls' # 0) =>
                /\ ticks = 0 /\ ~lastCheck
                /\ (lastRead' = "ok" /\ PodTerminal) => pc' = "exitCode"
          /\ startPolls' # startPolls =>
                (startPolls' = startPolls + 1 /\ pc = "startPoll" /\ pc' # pc)
          /\ endPolls' # endPolls =>
                (endPolls' = endPolls + 1 /\ pc = "endPoll" /\ pc' # pc)
          /\ (pc \in {"startPoll", "endPoll"} /\ pc' # pc /\ lastRead' = "failed") =>
                (failure' = "ReadErr" /\ failure' # "ErrWaitTimeout" /\ pc' = "deferW")
          /\ lastRead = "failed" =>
                (startPolls' = startPolls /\ endPolls' = endPolls
                 /\ lastRead' = lastRead /\ failure' = failure)]_vars
    /\ [](/\ pc = "startPoll" => startPolls = ticks + (IF lastCheck THEN 1 ELSE 0)
          /\ pc = "startSleep" => startPolls = ticks + 1
          /\ (podRunTimeout # 0 /\ pc = "endPoll") =>
                endPolls = ticks + (IF lastCheck THEN 1 ELSE 0)
          /\ (podRunTimeout # 0 /\ pc = "endSleep") => endPolls = ticks + 1)

\* the read of the last check of the end-wait, made after the timer fired,
\* failed: the wait ended with the read error
C22_Witness ==
    /\ lastRead = "failed"
    /\ lastCheck
    /\ failedAt = "waitPodEnd"
    /\ failure = "ReadErr"

\* the operations that patch the deployment, and those that patch the cron job
DeployOps == {"setEnv", "setSecretEnv", "deleteEnv", "patchEnv", "rollback", "replicas"}
CronJobOps == {"setCronEnv", "setCronSecretEnv", "deleteCronEnv", "patchCronEnv"}

\* the resource that operation op addresses is in the store
TargetExists(op) ==
    IF op \in DeployOps THEN store["deploy"] # "absent"
    ELSE IF op \in CronJobOps THEN store["cronjob"] # "absent"
    ELSE svc.exists

\* the step is a patch of an env payload that cannot be encoded
PatchUnserializable ==
    \/ patchDeployEnvVars("patchEnv", Unserializable)
    \/ patchCronJobEnvVars("patchCronEnv", Unserializable)

\* the step leaves the store as it was
StoreUnchanged ==
    UNCHANGED <<store, deployReplicas, deployDoc, cronJob, svc>>

\* C23 as claimed: a patch operation addressed to a resource that does not
\* exist issues exactly one Patch request, returns an error and leaves the
\* store unchanged; a patch whose payload cannot be encoded issues no
\* request and returns an error that no applied patch returns.
C23_NoCreateOneRequest ==
    [][/\ (~PatchUnserializable /\ ~TargetExists(lastPatch'.op)) =>
            /\ lastPatch'.requests = 1
            /\ lastPatch'.err # "nil"
            /\ StoreUnchanged
       /\ PatchUnserializable =>
            /\ lastPatch'.requests = 0
            /\ lastPatch'.err \notin {"nil", "BuildErr", "NotFound", "BadRequest",
                                      "Forbidden", "Invalid"}
            /\ StoreUnchanged]_vars

\* C23 amended: a patch operation addressed to a resource that does not
\* exist issues exactly one Patch request when the client could be built
\* and none when it could not, never more than one; in both cases it
\* returns an error and leaves the store unchanged; a patch whose payload
\* cannot be encoded issues no request and returns an error that no applied
\* patch returns.
C23_NoCreateAtMostOneRequest ==
    [][/\ (~PatchUnserializable /\ ~TargetExists(lastPatch'.op)) =>
            /\ lastPatch'.requests = (IF confOK THEN 1 ELSE 0)
            /\ lastPatch'.err # "nil"
            /\ StoreUnchanged
       /\ PatchUnserializable =>
            /\ lastPatch'.requests = 0
            /\ lastPatch'.err \notin {"nil", "BuildErr", "NotFound", "BadRequest",
                                      "Forbidden", "Invalid"}
            /\ StoreUnchanged]_vars

\* a secret env-var set on a deployment that does not exist returned
\* NotFound after one request, next to a cron job that was patched before
C23_Witness ==
    /\ lastPatch = Patched("setSecretEnv", "NotFound", 1)
    /\ store["deploy"] = "absent"
    /\ cronJob.env # NoEnv

\* C24 as claimed: an exit code is sent only after the log stream reached
\* its end and every chunk copied from it was consumed by the reader; after
\* the caller received an exit code no further output reaches it; and a
\* caller that never reads the output stream of a pod that produced output
\* never receives an exit code.
C24_SentAfterOutputConsumed ==
    /\ [][/\ chanValues' # chanValues =>
                (logState = "ended" /\ logPending = 0 /\ readerBytes = copied)
          /\ chanValues # <<>> => readerBytes' = readerBytes]_vars
    /\ []((callerMode = "recvOnly" /\ produced > 0) => chanValues = <<>>)

\* C24 amended: an exit code is sent only after the copy returned: either
\* the log stream reached its end and every chunk copied from it was
\* consumed by the reader, or the caller closed its end of the output
\* stream; after the caller received an exit code no further output reaches
\* it; and a caller that neither reads nor closes the output stream never
\* receives an exit code once a chunk of output was copied from the log
\* stream.
C24_SentAfterCopyReturned ==
    /\ [][/\ chanValues' # chanValues =>
                \/ logState = "ended" /\ logPending = 0 /\ readerBytes = copied
                \/ rClosed
          /\ chanValues # <<>> => readerBytes' = readerBytes]_vars
    /\ []((callerMode = "recvOnly" /\ copied > 0) => chanValues = <<>>)

\* the caller consumed every chunk the pod produced and then received the
\* exit code, the stream still open on its side
C24_Witness ==
    /\ chanValues # <<>>
    /\ copied = MaxOut
    /\ readerBytes = copied
    /\ ~rClosed

\* C25: a session issues at most one delete of its pod, and only after the
\* caller received the exit code; while no value was delivered, whether
\* the session failed (start failure, timeout, read error, log open
\* failure, missing exit status) or its caller does not receive, no delete
\* is issued and the pod that PodRun created stays in the store.
C25_DeleteOnlyAfterDelivery ==
    /\ [][deleteState' # deleteState =>
            \/ /\ deleteState = "none" /\ deleteState' = "pending"
               /\ Len(chanValues) = 1
            \/ /\ deleteState = "pending" /\ deleteState' \in {"ok", "failed"}]_vars
    /\ []((ret = "handles" /\ chanValues = <<>>) =>
            (deleteState = "none" /\ podPhase # "Absent"))
    /\ [](failure # "nil" => (deleteState = "none" /\ podPhase # "Absent"))

\* the session is over after the log stream could not be opened: no delete
\* was issued and the pod is still in the store
C25_Witness ==
    /\ pc = "done"
    /\ failure = "LogOpenErr"
    /\ deleteState = "none"
    /\ podPhase # "Absent"
====
